---- MODULE Spec2Model ----
(***************************************************************************)
(* The review pipeline of deBerenReviews: basic_clean (app/preprocess.py), *)
(* the text cleaner preprocess_texts (app/preprocess.py), tag_complaints   *)
(* (app/complaints.py), the negative-only totals of main (app/main.py) and  *)
(* train_sentiment_model (app/modeling.py).                                *)
(*                                                                         *)
(* Numbers.  A rating is a float in the code.  The model holds it in       *)
(* half-star units, so that 2.5 is a value: Num(k) is the float k.0.       *)
(* NaN and NaT are the integer -1, below every real value.                 *)
(***************************************************************************)
EXTENDS Integers, Sequences, FiniteSets, TLC

VARIABLES
    pc,       \* where the run is
    df,       \* the DataFrame handed to basic_clean: a sequence of raw rows
    out,      \* the DataFrame basic_clean returns
    text,     \* the review text handed to clean_nltk / clean_spacy
    nlp,      \* whether try_load_spacy_nl() returned a model
    parts,    \* the tokens scanned: parts (clean_nltk) or doc (clean_spacy)
    i,        \* the scan index, counted from 0 as in the code
    tokens,   \* tokens / out_tokens
    cleaned,  \* the string the cleaner returns
    cleaned_texts,        \* main: the cleaned text of every row of df
    sentiment,            \* main: df["sentiment"], row by row
    per_text,             \* tag_complaints: per_text
    total,                \* tag_complaints: total
    per_text_complaints,  \* main: the first value tag_complaints returned
    complaint_counts,     \* main: the second value tag_complaints returned
    neg_complaints,       \* main: the Counter of lines 88-91
    zipped,               \* main: the pairs the loop of line 89 has consumed
    cv,                   \* train_sentiment_model: what cross-validation gives each candidate
    returned,             \* train_sentiment_model: the pair it returns
    resp,                 \* generate_suggestions_llm: what the HTTP call produced
    exc,                  \* generate_suggestions_llm: the exception in flight, if any
    llm_suggestions,      \* generate_suggestions_llm: the list it returns
    coefs,                \* main: model.coef_[idx], the weights of one class (line 63)
    top_idx,              \* main: the feature numbers of line 64, counted from 1
    rating,               \* main: df["rating"], row by row
    classes,              \* main: model.classes_ of the fitted model
    suggestions,          \* main: the list of line 97
    files,                \* main: the files written so far, by name
    error                 \* main: the exception that ended the run, if any

cleanVars == <<df, out>>
textVars  == <<text, nlp, parts, i, tokens, cleaned>>
tagVars   == <<cleaned_texts, sentiment, per_text, total, per_text_complaints,
               complaint_counts, neg_complaints, zipped>>
trainVars == <<cv, returned>>
llmVars   == <<resp, exc, llm_suggestions>>
termVars  == <<coefs, top_idx>>
mainVars  == <<rating, classes, suggestions, files, error>>
otherVars == <<llmVars, termVars, mainVars>>
vars == <<pc, df, out, text, nlp, parts, i, tokens, cleaned, cleaned_texts, sentiment,
          per_text, total, per_text_complaints, complaint_counts, neg_complaints, zipped,
          cv, returned, resp, exc, llm_suggestions,
          coefs, top_idx, rating, classes, suggestions, files, error>>

(***************************************************************************)
(* Bounds of the model.                                                    *)
(***************************************************************************)
MaxRows == 3
MaxWords == 3
MaxTexts == 3
MaxScore == 1
MaxLines == 8
MaxFeatures == 16
MaxNegative == 2
MaxPerKind == 3

(***************************************************************************)
(* Helpers on sequences.                                                   *)
(***************************************************************************)
Range(s) == {s[a] : a \in 1..Len(s)}

SeqsUpTo(S, n) == UNION {[1..k -> S] : k \in 0..n}

RECURSIVE Filter(_, _, _)
\* the rows of s, in order, whose position k satisfies keep[k]
Filter(s, keep, k) ==
    IF k > Len(s) THEN <<>>
    ELSE (IF keep[k] THEN <<s[k]>> ELSE <<>>) \o Filter(s, keep, k + 1)

(***************************************************************************)
(* Cell values.                                                            *)
(***************************************************************************)
NA  == "<NA>"     \* a missing (NaN) cell of an object column
NaN == -1         \* float NaN: pd.to_numeric(errors="coerce") of a non-number
NaT == -1         \* pd.to_datetime(errors="coerce") of an unparseable value

Num(k) == 2 * k   \* the float k.0 in half-star units

\* CleanConfig(): min_rating, max_rating, neutral_rating
cfg == [min_rating |-> 1, max_rating |-> 5, neutral_rating |-> 3]

\* Series.astype(str): a missing cell becomes the text "nan" in pandas < 3 and
\* stays missing in pandas >= 3 (keepsNA); every other cell is its own text.
AsStr(c, keepsNA) == IF c = NA /\ ~keepsNA THEN "nan" ELSE c

\* Series.str.strip(): leading and trailing whitespace removed; a missing
\* cell stays missing.
RECURSIVE LStrip(_)
LStrip(c) ==
    IF Len(c) > 0 /\ SubSeq(c, 1, 1) = " " THEN LStrip(SubSeq(c, 2, Len(c))) ELSE c

RECURSIVE RStrip(_)
RStrip(c) ==
    IF Len(c) > 0 /\ SubSeq(c, Len(c), Len(c)) = " " THEN RStrip(SubSeq(c, 1, Len(c) - 1))
    ELSE c

Strip(c) == IF c = NA THEN NA ELSE LStrip(RStrip(c))

\* pd.to_numeric(errors="coerce") of one cell, in half-star units.
ToNumeric(c) ==
    CASE c = "0"   -> 0
      [] c = "1"   -> 2
      [] c = "1.5" -> 3
      [] c = "2"   -> 4
      [] c = "2.5" -> 5
      [] c = "3"   -> 6
      [] c = "3.5" -> 7
      [] c = "4"   -> 8
      [] c = "5"   -> 10
      [] c = "5.5" -> 11
      [] c = "6"   -> 12
      [] OTHER     -> NaN

\* pd.to_datetime(errors="coerce", utc=True) of one cell: the instant as a
\* day number, NaT when the cell does not parse.
ToDatetime(c) ==
    CASE c = "2024-01-05" -> 1
      [] c = "2024-01-20" -> 2
      [] c = "2024-02-03" -> 3
      [] c = "2024-03-09" -> 4
      [] OTHER            -> NaT

\* ts_naive.dt.to_period("M").astype(str): NaT becomes the text "NaT".
MonthStr(ts) ==
    CASE ts = 1 -> "2024-01"
      [] ts = 2 -> "2024-01"
      [] ts = 3 -> "2024-02"
      [] ts = 4 -> "2024-03"
      [] OTHER  -> "NaT"

(***************************************************************************)
(* basic_clean, statement by statement.                                    *)
(***************************************************************************)
\* df.copy(): the rows with their RangeIndex label.
WithIndex(d) ==
    [k \in 1..Len(d) |->
        [idx |-> k, review |-> d[k].review, rating |-> d[k].rating,
         timestamp |-> d[k].timestamp]]

\* df[c] = df[c].astype(str).str.strip() for the review column
StripColumns(d, keepsNA) ==
    [k \in 1..Len(d) |-> [d[k] EXCEPT !.review = Strip(AsStr(d[k].review, keepsNA))]]

\* df["rating"] = pd.to_numeric(df["rating"], errors="coerce")
CoerceRating(d) ==
    [k \in 1..Len(d) |-> [d[k] EXCEPT !.rating = ToNumeric(d[k].rating)]]

\* df.dropna(subset=["review", "rating"])
DropNa(d) ==
    Filter(d, [k \in 1..Len(d) |-> d[k].review # NA /\ d[k].rating # NaN], 1)

\* df[(df["rating"] >= cfg.min_rating) & (df["rating"] <= cfg.max_rating)]
RangeClamped(d) ==
    [k \in 1..Len(d) |->
        [d[k] EXCEPT !.rating =
            IF d[k].rating < Num(cfg.min_rating) THEN Num(cfg.min_rating)
            ELSE IF d[k].rating > Num(cfg.max_rating) THEN Num(cfg.max_rating)
            ELSE d[k].rating]]

RangeFilter(d) ==
    Filter(d, [k \in 1..Len(d) |->
                  d[k].rating >= Num(cfg.min_rating) /\ d[k].rating <= Num(cfg.max_rating)], 1)

\* timestamp parsed, date and month derived
ParseTimestamp(d) ==
    [k \in 1..Len(d) |->
        LET ts == ToDatetime(d[k].timestamp)
        IN  [idx |-> d[k].idx, review |-> d[k].review, rating |-> d[k].rating,
             timestamp |-> ts, date |-> ts, month |-> MonthStr(ts)]]

\* The orders numpy's argsort (kind="quicksort", not stable) can give rows
\* that all have a known timestamp: ascending, equal timestamps in any order.
RECURSIVE KnownOrders(_)
KnownOrders(S) ==
    IF S = {} THEN {<<>>}
    ELSE UNION {{<<r>> \o t : t \in KnownOrders(S \ {r})} :
                r \in {x \in S : \A y \in S : x.timestamp <= y.timestamp}}

\* sort_values with the NaT rows in reverse input order
SortValuesNaReversed(d) ==
    LET known == {d[k] : k \in {j \in 1..Len(d) : d[j].timestamp # NaT}}
        nat   == Filter(d, [k \in 1..Len(d) |-> d[k].timestamp = NaT], 1)
    IN  {s \o [k \in 1..Len(nat) |-> nat[Len(nat) + 1 - k]] : s \in KnownOrders(known)}

\* sort_values with na_position="first"
SortValuesNaFirst(d) ==
    LET known == {d[k] : k \in {j \in 1..Len(d) : d[j].timestamp # NaT}}
        nat   == Filter(d, [k \in 1..Len(d) |-> d[k].timestamp = NaT], 1)
    IN  {nat \o s : s \in KnownOrders(known)}

\* df.sort_values("timestamp"): the rows with a known timestamp ascending,
\* then the NaT rows (na_position="last") in the order they had.
SortValues(d) ==
    LET known == {d[k] : k \in {j \in 1..Len(d) : d[j].timestamp # NaT}}
        nat   == Filter(d, [k \in 1..Len(d) |-> d[k].timestamp = NaT], 1)
    IN  {s \o nat : s \in KnownOrders(known)}

\* drop_duplicates(subset=["review"], keep="last")
DropDuplicatesKeepFirst(d) ==
    Filter(d, [k \in 1..Len(d) |->
                  \A j \in 1..(k - 1) : d[j].review # d[k].review], 1)

DropDuplicates(d) ==
    Filter(d, [k \in 1..Len(d) |->
                  \A j \in (k + 1)..Len(d) : d[j].review # d[k].review], 1)

\* label_sentiment(r)
label_sentiment_strict(r) ==
    IF r < Num(2) THEN "negative"
    ELSE IF r > Num(4) THEN "positive"
    ELSE "neutral"

label_sentiment(r) ==
    IF r <= Num(2) THEN "negative"
    ELSE IF r >= Num(4) THEN "positive"
    ELSE "neutral"

\* df["sentiment"] = df["rating"].apply(label_sentiment)
ApplyLabel(d) ==
    [k \in 1..Len(d) |->
        [idx |-> d[k].idx, review |-> d[k].review, rating |-> d[k].rating,
         timestamp |-> d[k].timestamp, date |-> d[k].date, month |-> d[k].month,
         sentiment |-> label_sentiment(d[k].rating)]]

\* The frame just before sort_values, for one behaviour of astype(str).
Parsed(d, keepsNA) ==
    ParseTimestamp(RangeFilter(DropNa(CoerceRating(StripColumns(WithIndex(d), keepsNA)))))

\* Every frame basic_clean(d, cfg) can return.
basic_clean(d) ==
    UNION {{ApplyLabel(DropDuplicates(s)) : s \in SortValues(Parsed(d, keepsNA))} :
           keepsNA \in BOOLEAN}

(***************************************************************************)
(* The frames basic_clean is run on.                                       *)
(***************************************************************************)
RawRow(reviews, ratings, stamps) ==
    [review : reviews, rating : ratings, timestamp : stamps]

\* rows that differ in their rating
RatingRows == RawRow({"a", "b", "c"},
                     {"0", "1", "2", "2.5", "3", "3.5", "4", "5", "6"}, {""})

\* rows that differ in their text and their timestamp, some of them invalid
DedupRows == RawRow({"a", "a ", "b"}, {"4", "6"},
                    {"gisteren", "2024-01-05", "2024-01-20", "2024-02-03"})

\* rows whose text or rating may be missing or unusable
QualityRows == RawRow({NA, " ", "a"}, {"abc", "", "3"}, {""})

\* Python's None
None == "None"

\* the cleaner has not been called
TextIdle ==
    /\ text = "" /\ nlp = FALSE /\ parts = <<>> /\ i = 0 /\ tokens = <<>> /\ cleaned = ""

\* main has not reached the complaint tagging
TagIdle ==
    /\ cleaned_texts = <<>> /\ sentiment = <<>> /\ per_text = <<>> /\ total = <<>>
    /\ per_text_complaints = <<>> /\ complaint_counts = <<>> /\ neg_complaints = <<>>
    /\ zipped = 0

\* train_sentiment_model has not been called
TrainIdle == cv = <<>> /\ returned = <<>>

\* generate_suggestions_llm has not been called
LlmIdle == resp = <<>> /\ exc = None /\ llm_suggestions = <<>>

\* main has not gone past line 40
MainIdle ==
    /\ rating = <<>> /\ classes = {} /\ suggestions = <<>> /\ files = <<>> /\ error = None

\* nothing outside the normalisation, the cleaner, the tagging and the training has run
OtherIdle == LlmIdle /\ coefs = <<>> /\ top_idx = <<>> /\ MainIdle

InitRating ==
    /\ pc = "loaded"
    /\ df \in SeqsUpTo(RatingRows, MaxRows)
    /\ out = <<>>
    /\ TextIdle
    /\ TagIdle
    /\ TrainIdle
    /\ OtherIdle

InitDedup ==
    /\ pc = "loaded"
    /\ df \in SeqsUpTo(DedupRows, MaxRows)
    /\ out = <<>>
    /\ TextIdle
    /\ TagIdle
    /\ TrainIdle
    /\ OtherIdle

InitQuality ==
    /\ pc = "loaded"
    /\ df \in SeqsUpTo(QualityRows, MaxRows)
    /\ out = <<>>
    /\ TextIdle
    /\ TagIdle
    /\ TrainIdle
    /\ OtherIdle

BasicClean ==
    /\ pc = "loaded"
    /\ out' \in basic_clean(df)
    /\ pc' = "cleaned"
    /\ UNCHANGED df
    /\ UNCHANGED textVars
    /\ UNCHANGED tagVars
    /\ UNCHANGED <<trainVars, otherVars>>

NextClean == BasicClean

SpecRating  == InitRating /\ [][NextClean]_vars
SpecDedup   == InitDedup /\ [][NextClean]_vars
SpecQuality == InitQuality /\ [][NextClean]_vars

(***************************************************************************)
(* Claims about basic_clean.                                               *)
(***************************************************************************)
OutIdx == {out[k].idx : k \in 1..Len(out)}

\* the input rows with a numeric rating in [1,5] and a text that is not missing
InRange(a) ==
    /\ ToNumeric(df[a].rating) >= Num(1)
    /\ ToNumeric(df[a].rating) <= Num(5)

\* C1: the label of every record basic_clean returns is decided by its rating
\* alone: 1 and 2 give negative, 3 gives neutral, 4 and 5 give positive, and
\* two records with the same rating never differ in their label.
C1_LabelFromRating ==
    pc = "cleaned" =>
        /\ \A k \in 1..Len(out) :
              /\ out[k].rating \in {Num(1), Num(2)} => out[k].sentiment = "negative"
              /\ out[k].rating = Num(3) => out[k].sentiment = "neutral"
              /\ out[k].rating \in {Num(4), Num(5)} => out[k].sentiment = "positive"
              /\ out[k].sentiment \in {"negative", "neutral", "positive"}
        /\ \A j, k \in 1..Len(out) :
              out[j].rating = out[k].rating => out[j].sentiment = out[k].sentiment

C1_Witness ==
    /\ pc = "cleaned"
    /\ Len(out) = 3
    /\ {out[k].rating : k \in 1..Len(out)} = {Num(2), Num(3), Num(4)}
    /\ {out[k].sentiment : k \in 1..Len(out)} = {"negative", "neutral", "positive"}

SameText(t) ==
    {a \in 1..Len(df) : InRange(a) /\ df[a].review # NA /\ Strip(df[a].review) = t}

\* C2: when two or more valid rows have the same review text and known,
\* pairwise different timestamps, exactly one of them is in the output, and
\* it is the one with the latest timestamp, whatever the input order.
C2_DedupKeepsLatest ==
    pc = "cleaned" =>
        \A t \in {Strip(df[a].review) : a \in 1..Len(df)} :
            LET G == SameText(t)
            IN  (/\ Cardinality(G) >= 2
                 /\ \A a \in G : ToDatetime(df[a].timestamp) # NaT
                 /\ \A a, j \in G : a # j =>
                        ToDatetime(df[a].timestamp) # ToDatetime(df[j].timestamp))
                => /\ Cardinality(G \cap OutIdx) = 1
                   /\ Cardinality({k \in 1..Len(out) : out[k].idx \in G}) = 1
                   /\ \A a \in G \cap OutIdx : \A j \in G :
                          ToDatetime(df[j].timestamp) <= ToDatetime(df[a].timestamp)

\* three valid rows of one text, the latest first in the input, the earliest last
C2_Witness ==
    /\ pc = "cleaned"
    /\ Len(df) = 3
    /\ SameText("a") = {1, 2, 3}
    /\ ToDatetime(df[1].timestamp) = 3
    /\ ToDatetime(df[2].timestamp) = 2
    /\ ToDatetime(df[3].timestamp) = 1
    /\ OutIdx = {1}

\* C4: every input row whose rating is not numeric, or whose text is missing
\* or empty after stripping, is dropped, and no record with an empty or
\* missing text is in the output.
C4_BadRowsDropped ==
    pc = "cleaned" =>
        /\ \A a \in 1..Len(df) :
              (\/ ToNumeric(df[a].rating) = NaN
               \/ df[a].review = NA
               \/ Strip(df[a].review) = "") => a \notin OutIdx
        /\ \A k \in 1..Len(out) : out[k].review \notin {NA, ""}

\* The largest member of a non-empty set of row numbers.
Last(G) == CHOOSE a \in G : \A j \in G : j <= a

\* C17: a valid row whose timestamp does not parse, and whose text no other
\* valid row has, is in the output with an unknown timestamp and a missing
\* month, not a textual month value.
C17_UnknownTimestampKept ==
    pc = "cleaned" =>
        \A a \in 1..Len(df) :
            (/\ InRange(a)
             /\ df[a].review # NA
             /\ Strip(df[a].review) # ""
             /\ SameText(Strip(df[a].review)) = {a}
             /\ ToDatetime(df[a].timestamp) = NaT)
            => \E k \in 1..Len(out) :
                   /\ out[k].idx = a
                   /\ out[k].timestamp = NaT
                   /\ out[k].month = NA

\* C18: when two or more valid rows have the same review text and none of
\* their timestamps is known, exactly one of them is in the output, and it is
\* the one that comes last in the input.
C18_UnknownKeepsLastInput ==
    pc = "cleaned" =>
        \A t \in {Strip(df[a].review) : a \in 1..Len(df)} :
            LET G == SameText(t)
            IN  (/\ Cardinality(G) >= 2
                 /\ \A a \in G : ToDatetime(df[a].timestamp) = NaT)
                => /\ G \cap OutIdx = {Last(G)}
                   /\ Cardinality({k \in 1..Len(out) : out[k].idx \in G}) = 1

\* three valid rows of one text, none with a timestamp that parses
C18_Witness ==
    /\ pc = "cleaned"
    /\ Len(df) = 3
    /\ SameText("a") = {1, 2, 3}
    /\ \A a \in 1..3 : df[a].timestamp = "gisteren"
    /\ OutIdx = {3}

Char(t, k) == SubSeq(t, k, k)
Rest(t)    == SubSeq(t, 2, Len(t))
StartsWith(t, p) == Len(t) >= Len(p) /\ SubSeq(t, 1, Len(p)) = p

Digits == {"0", "1", "2", "3", "4", "5", "6", "7", "8", "9"}

\* the characters of string.punctuation that the texts of the model use
Punctuation == {"!", ",", "-", ".", "/", ":", "?", "_"}

\* str.lower() of one character
LowerChar(c) ==
    CASE c = "N" -> "n"
      [] c = "G" -> "g"
      [] c = "L" -> "l"
      [] c = "W" -> "w"
      [] OTHER   -> c

RECURSIVE Lower(_)
Lower(t) == IF t = "" THEN "" ELSE LowerChar(Char(t, 1)) \o Lower(Rest(t))

\* t without its leading run of non-whitespace characters (\S+)
RECURSIVE DropNonSpace(_)
DropNonSpace(t) == IF t = "" \/ Char(t, 1) = " " THEN t ELSE DropNonSpace(Rest(t))

\* url_re matches at the start of t: https?://\S+|www\.\S+
UrlAt(t) ==
    \E p \in {"http://", "https://", "www."} :
        StartsWith(t, p) /\ Len(t) > Len(p) /\ Char(t, Len(p) + 1) # " "

\* url_re.sub(" ", t)
RECURSIVE UrlSub(_)
UrlSub(t) ==
    IF t = "" THEN ""
    ELSE IF UrlAt(t) THEN " " \o UrlSub(DropNonSpace(t))
    ELSE Char(t, 1) \o UrlSub(Rest(t))

\* t without its leading run of digits (\d+)
RECURSIVE DropDigits(_)
DropDigits(t) == IF t = "" \/ Char(t, 1) \notin Digits THEN t ELSE DropDigits(Rest(t))

\* num_re.sub(" ", t)
RECURSIVE NumSub(_)
NumSub(t) ==
    IF t = "" THEN ""
    ELSE IF Char(t, 1) \in Digits THEN " " \o NumSub(DropDigits(t))
    ELSE Char(t, 1) \o NumSub(Rest(t))

\* t.translate(punct_tbl): every punctuation character deleted
RECURSIVE Translate(_)
Translate(t) ==
    IF t = "" THEN ""
    ELSE (IF Char(t, 1) \in Punctuation THEN "" ELSE Char(t, 1)) \o Translate(Rest(t))

\* t.split(): the maximal runs of non-whitespace characters; w is the run
\* being read
RECURSIVE SplitFrom(_, _)
SplitFrom(t, w) ==
    IF t = "" THEN (IF w = "" THEN <<>> ELSE <<w>>)
    ELSE IF Char(t, 1) = " " THEN (IF w = "" THEN <<>> ELSE <<w>>) \o SplitFrom(Rest(t), "")
    ELSE SplitFrom(Rest(t), w \o Char(t, 1))

Split(t) == SplitFrom(t, "")

\* " ".join(tokens)
RECURSIVE Join(_)
Join(ts) ==
    IF ts = <<>> THEN ""
    ELSE IF Len(ts) = 1 THEN ts[1]
    ELSE ts[1] \o " " \o Join(Tail(ts))

\* stop_set: the Dutch stop words of NLTK (those the texts of the model use)
\* and domain_extra
base_stop    == {"de", "het", "een", "en", "niet", "geen", "was", "te", "maar", "ook"}
domain_extra == {"beren", "restaurant", "eten", "drinken", "menukaart", "besteld",
                 "bestellen", "gerechten"}
stop_set     == base_stop \cup domain_extra

\* SnowballStemmer("dutch").stem(w) on the words of the model
Stem(w) ==
    CASE w = "lekkere" -> "lekker"
      [] w = "goede"   -> "goed"
      [] OTHER         -> w

\* nlp(t): the tokens of one whitespace-separated piece; punctuation
\* characters are tokens of their own
RECURSIVE SpacyPiece(_, _)
SpacyPiece(t, w) ==
    IF t = "" THEN (IF w = "" THEN <<>> ELSE <<w>>)
    ELSE IF Char(t, 1) \in Punctuation
         THEN (IF w = "" THEN <<>> ELSE <<w>>) \o <<Char(t, 1)>> \o SpacyPiece(Rest(t), "")
         ELSE SpacyPiece(Rest(t), w \o Char(t, 1))

\* t without its leading run of spaces
RECURSIVE DropSpaces(_)
DropSpaces(t) == IF t = "" \/ Char(t, 1) # " " THEN t ELSE DropSpaces(Rest(t))

\* nlp(t): the Doc.  One space after a token belongs to the token; any
\* further run of spaces is a whitespace token.
RECURSIVE SpacyDoc(_, _)
SpacyDoc(t, w) ==
    IF t = "" THEN SpacyPiece(w, "")
    ELSE IF Char(t, 1) = " "
         THEN SpacyPiece(w, "")
              \o (IF (w = "" \/ (Len(t) > 1 /\ Char(t, 2) = " "))
                  THEN <<" ">> ELSE <<>>)
              \o SpacyDoc(DropSpaces(t), "")
         ELSE SpacyDoc(Rest(t), w \o Char(t, 1))

is_space(tok) == tok = " "
is_punct(tok) == tok \in Punctuation

\* tok.lemma_ of the Dutch spaCy model on the tokens of the model
Lemma(tok) ==
    CASE tok = "lekkere" -> "lekker"
      [] tok = "goede"   -> "goed"
      [] tok = "was"     -> "zijn"
      [] OTHER           -> tok

\* str.isalpha()
RECURSIVE AllAlpha(_)
AllAlpha(t) ==
    t = "" \/ (Char(t, 1) \notin (Punctuation \cup Digits \cup {" "}) /\ AllAlpha(Rest(t)))

isalpha(t) == t # "" /\ AllAlpha(t)

NegationMarkers == {"niet", "geen"}

\* the token at index k (from 0) of parts
At(k) == parts[k + 1]

\* lines 94-99 and 126-132: the text is normalised and tokenised
CleanStart ==
    /\ pc = "text"
    /\ parts' = IF nlp THEN SpacyDoc(NumSub(UrlSub(Lower(text))), "")
                ELSE Split(Translate(NumSub(UrlSub(Lower(text)))))
    /\ i' = 0
    /\ tokens' = <<>>
    /\ pc' = "scan"
    /\ UNCHANGED <<text, nlp, cleaned>>
    /\ UNCHANGED cleanVars
    /\ UNCHANGED tagVars
    /\ UNCHANGED <<trainVars, otherVars>>

\* clean_nltk, lines 135-140: a negation marker that has a next token
NltkNegation ==
    /\ pc = "scan" /\ ~nlp /\ i < Len(parts)
    /\ At(i) \in NegationMarkers /\ i + 1 < Len(parts)
    /\ LET nxt == At(i + 1)
       IN  tokens' = IF nxt \notin stop_set /\ Len(nxt) > 2
                     THEN Append(tokens, "not_" \o nxt)
                     ELSE tokens
    /\ i' = i + 2
    /\ UNCHANGED <<pc, text, nlp, parts, cleaned>>
    /\ UNCHANGED cleanVars
    /\ UNCHANGED tagVars
    /\ UNCHANGED <<trainVars, otherVars>>

\* clean_nltk, lines 141-143: any other token
NltkWord ==
    /\ pc = "scan" /\ ~nlp /\ i < Len(parts)
    /\ ~(At(i) \in NegationMarkers /\ i + 1 < Len(parts))
    /\ LET w == At(i)
       IN  tokens' = IF w \notin stop_set /\ Len(w) > 2
                     THEN Append(tokens, Stem(w))
                     ELSE tokens
    /\ i' = i + 1
    /\ UNCHANGED <<pc, text, nlp, parts, cleaned>>
    /\ UNCHANGED cleanVars
    /\ UNCHANGED tagVars
    /\ UNCHANGED <<trainVars, otherVars>>

\* clean_spacy, lines 102-108: whitespace, punctuation, empty lemma
SpacySkip ==
    /\ pc = "scan" /\ nlp /\ i < Len(parts)
    /\ is_space(At(i)) \/ is_punct(At(i)) \/ Strip(Lemma(At(i))) = ""
    /\ i' = i + 1
    /\ UNCHANGED <<pc, text, nlp, parts, tokens, cleaned>>
    /\ UNCHANGED cleanVars
    /\ UNCHANGED tagVars
    /\ UNCHANGED <<trainVars, otherVars>>

\* clean_spacy, lines 110-116: a negation marker that has a next token
SpacyNegation ==
    /\ pc = "scan" /\ nlp /\ i < Len(parts)
    /\ ~(is_space(At(i)) \/ is_punct(At(i)) \/ Strip(Lemma(At(i))) = "")
    /\ Strip(Lemma(At(i))) \in NegationMarkers /\ i + 1 < Len(parts)
    /\ LET nxt_lemma == Strip(Lemma(At(i + 1)))
       IN  tokens' = IF nxt_lemma # "" /\ nxt_lemma \notin stop_set /\ Len(nxt_lemma) > 2
                     THEN Append(tokens, "not_" \o nxt_lemma)
                     ELSE tokens
    /\ i' = i + 2
    /\ UNCHANGED <<pc, text, nlp, parts, cleaned>>
    /\ UNCHANGED cleanVars
    /\ UNCHANGED tagVars
    /\ UNCHANGED <<trainVars, otherVars>>

\* clean_spacy, lines 117-119: any other token
SpacyWord ==
    /\ pc = "scan" /\ nlp /\ i < Len(parts)
    /\ ~(is_space(At(i)) \/ is_punct(At(i)) \/ Strip(Lemma(At(i))) = "")
    /\ ~(Strip(Lemma(At(i))) \in NegationMarkers /\ i + 1 < Len(parts))
    /\ LET lemma == Strip(Lemma(At(i)))
       IN  tokens' = IF lemma \notin stop_set /\ Len(lemma) > 2 /\ isalpha(lemma)
                     THEN Append(tokens, lemma)
                     ELSE tokens
    /\ i' = i + 1
    /\ UNCHANGED <<pc, text, nlp, parts, cleaned>>
    /\ UNCHANGED cleanVars
    /\ UNCHANGED tagVars
    /\ UNCHANGED <<trainVars, otherVars>>

\* lines 120 and 144: the loop is over, the tokens are joined
CleanDone ==
    /\ pc = "scan" /\ i >= Len(parts)
    /\ cleaned' = Join(tokens)
    /\ pc' = "cleaned_text"
    /\ UNCHANGED <<text, nlp, parts, i, tokens>>
    /\ UNCHANGED cleanVars
    /\ UNCHANGED tagVars
    /\ UNCHANGED <<trainVars, otherVars>>

\* the whitespace-separated pieces the texts of the model are made of
Pieces == {"Niet", "geen", "de", "ok", "lekkere", "goed,", "10", "www.beren.nl"}

InitText ==
    /\ pc = "text"
    /\ text \in {Join(ws) : ws \in SeqsUpTo(Pieces, MaxWords)}
    /\ nlp \in BOOLEAN
    /\ parts = <<>> /\ i = 0 /\ tokens = <<>> /\ cleaned = ""
    /\ df = <<>> /\ out = <<>>
    /\ TagIdle
    /\ TrainIdle
    /\ OtherIdle

NextText ==
    \/ CleanStart
    \/ NltkNegation
    \/ NltkWord
    \/ SpacySkip
    \/ SpacyNegation
    \/ SpacyWord
    \/ CleanDone

SpecText == InitText /\ [][NextText]_vars

\* what the token t becomes when the scan emits it on its own
Emitted(t) == IF nlp THEN Strip(Lemma(t)) ELSE Stem(t)

\* the token at index k is a content token: no stop word, longer than 2
Content(k) ==
    LET t == IF nlp THEN Strip(Lemma(At(k))) ELSE At(k)
    IN  t \notin stop_set /\ Len(t) > 2

\* the scan is at a negation marker
AtMarker ==
    /\ pc = "scan" /\ i < Len(parts)
    /\ (IF nlp THEN Strip(Lemma(At(i))) ELSE At(i)) \in NegationMarkers

\* C5: when the scan is at a negation marker that is followed by a content
\* token, the step emits exactly one token, not_<X>, X being what the
\* following token becomes when it is emitted on its own, and goes past both.
C5_FusedTokenIsStem ==
    [][(AtMarker /\ i + 1 < Len(parts) /\ Content(i + 1))
         => /\ tokens' = Append(tokens, "not_" \o Emitted(At(i + 1)))
            /\ i' = i + 2]_vars

\* C5, the final result of the smallest case: the text "niet lekkere" is
\* cleaned to the single token not_lekker.
C5_NietLekkere ==
    (pc = "cleaned_text" /\ text = "Niet lekkere") => cleaned = "not_lekker"

\* C6: the scan goes past two tokens only when it emits a fused token; at a
\* negation marker whose next token is no content token, or that is the last
\* token, nothing is emitted and the scan goes on by one token.
C6_AdvanceByOne ==
    [][(AtMarker /\ (i + 1 >= Len(parts) \/ ~Content(i + 1)))
         => /\ tokens' = tokens
            /\ i' = i + 1]_vars

\* C6, its example: a second marker right after the first still fuses with
\* the content word after it.
C6_SecondMarkerFuses ==
    (pc = "cleaned_text" /\ text = "Niet geen lekkere")
        => cleaned \in {"not_lekker", "not_lekkere"}

(***************************************************************************)
(* tag_complaints (app/complaints.py) and the negative-only totals of main. *)
(***************************************************************************)
\* complaint_taxonomy(): the categories in the order of the dict, each with
\* the alternatives of its pattern.  koud\w* matches where koud does; of the
\* class of hygi[...]ne only e is a character of the texts of the model.
complaint_taxonomy == <<
    [name |-> "service",
     alts |-> {"bedien", "servic", "onvriend", "gastvrij", "attent", "aandacht",
               "personeel", "medewerker"}],
    [name |-> "wait_time",
     alts |-> {"wacht", "wachttijd", "lang", "traag", "op tijd", "duur", "snel",
               "verlaat"}],
    [name |-> "food_quality",
     alts |-> {"slecht", "niet lekker", "taai", "rauw", "doorbak", "verbrand",
               "kwaliteit", "smaak", "vies", "smerig", "klef", "droog"}],
    [name |-> "portion_temp",
     alts |-> {"koud", "lauw", "warmhoud", "temperatuur", "afgekoeld"}],
    [name |-> "pricing_value",
     alts |-> {"duur", "rekening", "prijs", "te duur", "prijs-kwaliteit", "overprijs",
               "kosten"}],
    [name |-> "ambience",
     alts |-> {"muziek", "lawaai", "geluid", "herrie", "airco", "warm", "heet",
               "klimaat", "druk", "sfeer"}],
    [name |-> "order_accuracy",
     alts |-> {"vergeten", "ontbrak", "fout", "verkeerd", "bon", "bestelling",
               "niet gekregen"}],
    [name |-> "cleanliness",
     alts |-> {"vies", "smerig", "vuil", "schoon", "hygiene", "insect", "vlieg"}] >>

Categories == {complaint_taxonomy[k].name : k \in 1..Len(complaint_taxonomy)}

\* rx.search(t): some alternative occurs somewhere in t
Search(alts, t) ==
    \E kw \in alts : \E p \in 1..(Len(t) - Len(kw) + 1) :
        SubSeq(t, p, p + Len(kw) - 1) = kw

\* [k for k, rx in compiled.items() if rx.search(t)], from entry k on
RECURSIVE FoundFrom(_, _)
FoundFrom(t, k) ==
    IF k > Len(complaint_taxonomy) THEN <<>>
    ELSE (IF Search(complaint_taxonomy[k].alts, t)
          THEN <<complaint_taxonomy[k].name>> ELSE <<>>) \o FoundFrom(t, k + 1)

\* the same, stopping at the first category that matches
RECURSIVE FirstFoundFrom(_, _)
FirstFoundFrom(t, k) ==
    IF k > Len(complaint_taxonomy) THEN <<>>
    ELSE IF Search(complaint_taxonomy[k].alts, t) THEN <<complaint_taxonomy[k].name>>
    ELSE FirstFoundFrom(t, k + 1)

FoundFirstOnly(t) == FirstFoundFrom(t, 1)

Found(t) == FoundFrom(t, 1)

\* Counter(): a key that was never counted reads 0
Counter == [c \in Categories |-> 0]

\* the number of times c occurs in the list cats
Occurrences(cats, c) == Cardinality({k \in 1..Len(cats) : cats[k] = c})

\* counts.update(cats) written as counts[c] = 1 for every c of cats
CounterSet(counts, cats) ==
    [c \in Categories |-> IF Occurrences(cats, c) > 0 THEN 1 ELSE counts[c]]

\* counts.update(cats)
CounterUpdate(counts, cats) ==
    [c \in Categories |-> counts[c] + Occurrences(cats, c)]

\* lines 25-28
TagStart ==
    /\ pc = "tag"
    /\ per_text' = <<>>
    /\ total' = Counter
    /\ pc' = "tag_loop"
    /\ UNCHANGED <<cleaned_texts, sentiment, per_text_complaints, complaint_counts,
                   neg_complaints, zipped>>
    /\ UNCHANGED <<cleanVars, textVars, trainVars, otherVars>>

\* lines 29-32: one text of the loop
TagText ==
    /\ pc = "tag_loop"
    /\ Len(per_text) < Len(cleaned_texts)
    /\ LET found == Found(cleaned_texts[Len(per_text) + 1])
       IN  /\ per_text' = Append(per_text, found)
           /\ total' = CounterUpdate(total, found)
    /\ UNCHANGED <<pc, cleaned_texts, sentiment, per_text_complaints, complaint_counts,
                   neg_complaints, zipped>>
    /\ UNCHANGED <<cleanVars, textVars, trainVars, otherVars>>

\* line 33, and lines 84 and 88 of main
TagReturn ==
    /\ pc = "tag_loop"
    /\ Len(per_text) = Len(cleaned_texts)
    /\ per_text_complaints' = per_text
    /\ complaint_counts' = total
    /\ neg_complaints' = Counter
    /\ zipped' = 0
    /\ pc' = "neg_loop"
    /\ UNCHANGED <<cleaned_texts, sentiment, per_text, total>>
    /\ UNCHANGED <<cleanVars, textVars, trainVars, otherVars>>

\* neg_mask = df["sentiment"] == "negative"
neg_mask == [k \in 1..Len(sentiment) |-> sentiment[k] = "negative"]

\* lines 90-91, with the test of line 90 left out
NegUpdateAll(neg, cats, is_neg) == CounterUpdate(neg, cats)

\* lines 90-91
NegUpdate(neg, cats, is_neg) == IF is_neg THEN CounterUpdate(neg, cats) ELSE neg

\* lines 89-91: one pair of zip(per_text_complaints, neg_mask)
NegStep ==
    /\ pc = "neg_loop"
    /\ zipped < Len(per_text_complaints) /\ zipped < Len(neg_mask)
    /\ neg_complaints' =
          NegUpdate(neg_complaints, per_text_complaints[zipped + 1], neg_mask[zipped + 1])
    /\ zipped' = zipped + 1
    /\ UNCHANGED <<pc, cleaned_texts, sentiment, per_text, total, per_text_complaints,
                   complaint_counts>>
    /\ UNCHANGED <<cleanVars, textVars, trainVars, otherVars>>

\* the loop of line 89 is over
NegDone ==
    /\ pc = "neg_loop"
    /\ ~(zipped < Len(per_text_complaints) /\ zipped < Len(neg_mask))
    /\ pc' = "summed"
    /\ UNCHANGED tagVars
    /\ UNCHANGED <<cleanVars, textVars, trainVars, otherVars>>

\* cleaned texts of the kind the cleaner returns
SampleTexts == {"", "lekker", "duur", "lang wacht vies", "personeel koud"}

Labels == {"negative", "neutral", "positive"}

InitTag ==
    /\ pc = "tag"
    /\ cleaned_texts \in SeqsUpTo(SampleTexts, MaxTexts)
    /\ sentiment \in [1..Len(cleaned_texts) -> Labels]
    /\ per_text = <<>> /\ total = <<>>
    /\ per_text_complaints = <<>> /\ complaint_counts = <<>> /\ neg_complaints = <<>>
    /\ zipped = 0
    /\ df = <<>> /\ out = <<>>
    /\ TextIdle
    /\ TrainIdle
    /\ OtherIdle

NextTag ==
    \/ TagStart
    \/ TagText
    \/ TagReturn
    \/ NegStep
    \/ NegDone

SpecTag == InitTag /\ [][NextTag]_vars

\* tag_complaints has just returned
Tagged == pc = "neg_loop" /\ zipped = 0

\* the pattern of category c has a keyword that occurs in t at position p
KeywordAt(c, t, p) ==
    \E k \in 1..Len(complaint_taxonomy) :
        /\ complaint_taxonomy[k].name = c
        /\ \E kw \in complaint_taxonomy[k].alts :
              p + Len(kw) - 1 <= Len(t) /\ SubSeq(t, p, p + Len(kw) - 1) = kw

TagSet(k) == Range(per_text_complaints[k])

RECURSIVE SumOver(_, _)
SumOver(f, S) ==
    IF S = {} THEN 0
    ELSE LET c == CHOOSE x \in S : TRUE IN f[c] + SumOver(f, S \ {c})

\* C7: every text gets exactly the categories whose pattern occurs somewhere
\* in it, each category decided on its own: only names of the 8 categories,
\* none twice, possibly none or several; a text with a wait-time keyword and a
\* cleanliness keyword has both tags.
C7_TagsAreMatches ==
    Tagged =>
        /\ Cardinality(Categories) = 8
        /\ \A k \in 1..Len(per_text_complaints) :
              LET t == cleaned_texts[k]
              IN  /\ TagSet(k) \subseteq Categories
                  /\ Cardinality(TagSet(k)) = Len(per_text_complaints[k])
                  /\ \A c \in Categories :
                        c \in TagSet(k) <=> \E p \in 1..Len(t) : KeywordAt(c, t, p)
                  /\ t = "lang wacht vies" =>
                        TagSet(k) = {"wait_time", "food_quality", "cleanliness"}
                  /\ t = "personeel koud" => TagSet(k) = {"service", "portion_temp"}
                  /\ t = "duur" => TagSet(k) = {"wait_time", "pricing_value"}
                  /\ t \in {"", "lekker"} => TagSet(k) = {}

\* one text with no tag, one with the wait-time and the cleanliness tag
C7_Witness ==
    /\ Tagged
    /\ \E j, k \in 1..Len(per_text_complaints) :
          /\ TagSet(j) = {}
          /\ {"wait_time", "cleanliness"} \subseteq TagSet(k)

\* C8: the totals tag_complaints returns count all input texts: for every
\* category, the number of texts whose tag list holds it; and the per-text
\* list has one entry per input text, in input order.
C8_TotalsCountAllTexts ==
    Tagged =>
        /\ Len(per_text_complaints) = Len(cleaned_texts)
        /\ \A k \in 1..Len(cleaned_texts) :
              \A c \in Categories :
                  c \in TagSet(k) <=>
                      \E p \in 1..Len(cleaned_texts[k]) : KeywordAt(c, cleaned_texts[k], p)
        /\ \A c \in Categories :
              complaint_counts[c] =
                  Cardinality({k \in 1..Len(per_text_complaints) : c \in TagSet(k)})

\* a category counted twice, once for a text that is not negative
C8_Witness ==
    /\ Tagged
    /\ Len(cleaned_texts) = 3
    /\ complaint_counts["wait_time"] = 2
    /\ \E k \in 1..Len(cleaned_texts) :
          "wait_time" \in TagSet(k) /\ sentiment[k] # "negative"

Negatives == {k \in 1..Len(sentiment) : sentiment[k] = "negative"}

\* C9: the negative-only totals of main count, for every category, the
\* records labelled negative whose tag list holds it; each is at most the
\* all-reviews count and at most the number of negative reviews, and their
\* sum is at most the number of negative reviews times the 8 categories.
C9_NegativeOnlyTotals ==
    pc = "summed" =>
        /\ \A c \in Categories :
              /\ neg_complaints[c] = Cardinality({k \in Negatives : c \in TagSet(k)})
              /\ neg_complaints[c] <= complaint_counts[c]
              /\ neg_complaints[c] <= Cardinality(Negatives)
        /\ SumOver(neg_complaints, Categories)
              <= Cardinality(Negatives) * Cardinality(Categories)

\* a negative and a non-negative text with the same tag
C9_Witness ==
    /\ pc = "summed"
    /\ Cardinality(Negatives) = 1
    /\ neg_complaints["wait_time"] = 1
    /\ complaint_counts["wait_time"] = 2
    /\ neg_complaints["service"] = 0
    /\ complaint_counts["service"] = 1

(***************************************************************************)
(* train_sentiment_model (app/modeling.py).  A mean macro-F1 lies in [0,1]; *)
(* the model holds it in units of 1/MaxScore, so 1.0 is MaxScore.           *)
(***************************************************************************)
\* lines 13-17: the names of the candidates, in the order of the list
candidates == <<"logreg_C=0.1", "logreg_C=0.5", "logreg_C=1.0", "logreg_C=3.0",
                "logreg_C=10.0", "linsvc_C=0.5", "linsvc_C=1.0", "linsvc_C=3.0",
                "linsvc_C=10.0">>

\* np.clip(x, lo, hi)
Clip(x, lo, hi) == IF x < lo THEN lo ELSE IF x > hi THEN hi ELSE x

\* lines 9-11, from the smallest class count of y_train (0 when it is empty)
n_splits(min_count) == Clip(min_count, 2, 3)

\* What lines 26-27 give for one candidate: cross_val_score raises, the mean
\* of the scores is NaN, or it is a number.
Outcomes ==
    {[kind |-> "raise", v |-> 0], [kind |-> "nan", v |-> 0]}
        \cup {[kind |-> "score", v |-> n] : n \in 0..MaxScore}

\* line 28 with >= in place of >
BetterOrEqual(score, best) == score.kind = "score" /\ score.v >= best.best_score

\* line 28: np.isfinite(score) and score > best_score
Better(score, best) == score.kind = "score" /\ score.v > best.best_score

\* lines 24-33: the loop from candidate k on
RECURSIVE SelectFrom(_, _, _)
SelectFrom(scores, k, best) ==
    IF k > Len(candidates) THEN best
    ELSE IF scores[k].kind = "raise" THEN SelectFrom(scores, k + 1, best)
    ELSE IF Better(scores[k], best)
         THEN SelectFrom(scores, k + 1,
                         [best_name |-> candidates[k], best_model |-> candidates[k],
                          best_score |-> scores[k].v])
         ELSE SelectFrom(scores, k + 1, best)

\* lines 19-35: the candidate chosen
Select(scores, min_count) ==
    LET start == [best_name |-> None, best_model |-> None, best_score |-> 0 - MaxScore]
        best  == IF n_splits(min_count) >= 2 THEN SelectFrom(scores, 1, start) ELSE start
    IN  IF best.best_model = None
        THEN [best EXCEPT !.best_name = candidates[1], !.best_model = candidates[1]]
        ELSE best

\* the smallest class count of y_train: none (y_train is empty), below,
\* inside and above the range of the clip
MinCounts == {0, 1, 2, 5}

\* train_sentiment_model(X_train, y_train) returns
TrainReturn ==
    /\ pc = "train"
    /\ \E min_count \in MinCounts :
          LET best == Select(cv, min_count)
          IN  returned' = <<best.best_model, best.best_name>>
    /\ pc' = "trained"
    /\ UNCHANGED cv
    /\ UNCHANGED <<cleanVars, textVars, tagVars, otherVars>>

\* best_model.fit(X_train, y_train) of line 37 raises: nothing is returned
TrainRaise ==
    /\ pc = "train"
    /\ returned' = <<>>
    /\ pc' = "train_raised"
    /\ UNCHANGED cv
    /\ UNCHANGED <<cleanVars, textVars, tagVars, otherVars>>

InitTrain ==
    /\ pc = "train"
    /\ cv \in [1..Len(candidates) -> Outcomes]
    /\ returned = <<>>
    /\ df = <<>> /\ out = <<>>
    /\ TextIdle
    /\ TagIdle
    /\ OtherIdle

NextTrain ==
    \/ TrainReturn
    \/ TrainRaise

SpecTrain == InitTrain /\ [][NextTrain]_vars

\* the candidates whose mean score is a number
Finite == {k \in 1..Len(candidates) : cv[k].kind = "score"}

\* those among them with the largest mean
Best == {k \in Finite : \A j \in Finite : cv[j].v <= cv[k].v}

\* C10: what train_sentiment_model returns is one of the 9 candidates of the
\* grid: the earliest candidate with the largest finite mean score when some
\* candidate has one, the first candidate of the grid otherwise.
C10_ReturnsBestOfGrid ==
    pc = "trained" =>
        /\ Len(candidates) = 9
        /\ returned[2] \in Range(candidates)
        /\ returned[1] = returned[2]
        /\ Finite # {} =>
              \E k \in Best : /\ \A j \in Best : k <= j
                              /\ returned[2] = candidates[k]
        /\ Finite = {} => returned[2] = "logreg_C=0.1"

\* the largest mean is shared by two candidates, after a failure and a lower one
C10_Witness ==
    /\ pc = "trained"
    /\ cv[1].kind = "raise"
    /\ cv[2].kind = "nan"
    /\ cv[3] = [kind |-> "score", v |-> 0]
    /\ cv[4] = [kind |-> "score", v |-> MaxScore]
    /\ cv[6] = [kind |-> "score", v |-> MaxScore]
    /\ returned = <<"logreg_C=3.0", "logreg_C=3.0">>


(***************************************************************************)
(* generate_suggestions_llm (app/llm_suggestions.py).  resp is what the    *)
(* HTTP call gives: the exception one of lines 62-65 raises, or the text   *)
(* of the "response" field, held as what json.loads makes of it (json,     *)
(* items) and as what splitlines makes of it (lines).                      *)
(***************************************************************************)
\* str.strip(chars)
RECURSIVE LStripChars(_, _)
LStripChars(t, cs) ==
    IF t # "" /\ Char(t, 1) \in cs THEN LStripChars(Rest(t), cs) ELSE t

RECURSIVE RStripChars(_, _)
RStripChars(t, cs) ==
    IF t # "" /\ Char(t, Len(t)) \in cs
    THEN RStripChars(SubSeq(t, 1, Len(t) - 1), cs)
    ELSE t

StripChars(t, cs) == LStripChars(RStripChars(t, cs), cs)

\* line 83: the characters of "- • " (the sample lines use the ASCII ones)
Bullets == {"-", " "}

\* line 71: [str(s).strip() for s in suggestions if str(s).strip()]
NonEmptyStripped(items) ==
    LET st == [k \in 1..Len(items) |-> Strip(items[k])]
    IN  Filter(st, [k \in 1..Len(st) |-> st[k] # ""], 1)

\* lines 73-78: the first occurrence of every string, in order
Dedupe(s) ==
    Filter(s, [k \in 1..Len(s) |-> \A j \in 1..(k - 1) : s[j] # s[k]], 1)

\* lines 83-85: the non-blank lines, stripped of bullets, those longer than
\* 6 characters, at most 7 of them
LineFallback(ls) ==
    LET nonblank == Filter(ls, [k \in 1..Len(ls) |-> Strip(ls[k]) # ""], 1)
        stripped == [k \in 1..Len(nonblank) |-> StripChars(nonblank[k], Bullets)]
        long     == Filter(stripped, [k \in 1..Len(stripped) |-> Len(stripped[k]) > 6], 1)
    IN  SubSeq(long, 1, IF Len(long) < 7 THEN Len(long) ELSE 7)

\* what lines 62-65 can raise: requests.post (connection, timeout),
\* raise_for_status, resp.json() on a body that is not JSON, and
\* data.get(...).strip() on a body that is no object or has a null response
Raised == {"ConnectionError", "Timeout", "HTTPError", "JSONDecodeError", "AttributeError"}

\* except clauses narrower than the one of line 87
CaughtRequestsOnly(e) == e \in {"ConnectionError", "Timeout", "HTTPError"}

\* line 87: except Exception
Caught(e) == e \in Raised

ItemPool == {"Meer personeel", " Meer personeel ", ""}
LinePool == {"- Meer personeel inzetten", "Meer personeel inzetten", "kort", ""}

\* texts that are valid JSON but no array: a number, null
JsonOther == {<<"12345678">>, <<"null">>}

Responses(max) ==
    {[raises |-> e, json |-> None, items |-> <<>>, lines |-> <<>>] : e \in Raised}
    \cup {[raises |-> None, json |-> "list", items |-> s, lines |-> <<>>] :
            s \in SeqsUpTo(ItemPool, max)}
    \cup {[raises |-> None, json |-> "other", items |-> <<>>, lines |-> ls] :
            ls \in JsonOther}
    \cup {[raises |-> None, json |-> "invalid", items |-> <<>>, lines |-> ls] :
            ls \in {s \in SeqsUpTo(LinePool, max) :
                       s # <<>> => s[1] # "" /\ s[Len(s)] # ""}}

\* lines 53-65: build the request, post it, read the "response" text
LlmCall ==
    /\ pc = "llm"
    /\ IF resp.raises # None
       THEN exc' = resp.raises /\ pc' = "llm_except"
       ELSE exc' = exc /\ pc' = "llm_parse"
    /\ UNCHANGED <<resp, llm_suggestions>>
    /\ UNCHANGED <<cleanVars, textVars, tagVars, trainVars, termVars, mainVars>>

\* lines 67-79: the text is a JSON array
LlmJsonList ==
    /\ pc = "llm_parse"
    /\ resp.json = "list"
    /\ llm_suggestions' = Dedupe(NonEmptyStripped(resp.items))
    /\ pc' = "llm_returned"
    /\ UNCHANGED <<resp, exc>>
    /\ UNCHANGED <<cleanVars, textVars, tagVars, trainVars, termVars, mainVars>>

\* lines 80-86: the text is no JSON (JSONDecodeError, passed over) or JSON
\* that is no array
LlmLines ==
    /\ pc = "llm_parse"
    /\ resp.json # "list"
    /\ llm_suggestions' = LineFallback(resp.lines)
    /\ pc' = "llm_returned"
    /\ UNCHANGED <<resp, exc>>
    /\ UNCHANGED <<cleanVars, textVars, tagVars, trainVars, termVars, mainVars>>

\* lines 87-88: an exception the clause catches gives [], any other leaves
\* the function
LlmExcept ==
    /\ pc = "llm_except"
    /\ IF Caught(exc)
       THEN llm_suggestions' = <<>> /\ pc' = "llm_returned"
       ELSE llm_suggestions' = llm_suggestions /\ pc' = "llm_raised"
    /\ UNCHANGED <<resp, exc>>
    /\ UNCHANGED <<cleanVars, textVars, tagVars, trainVars, termVars, mainVars>>

InitLlm ==
    /\ pc = "llm"
    /\ resp \in Responses(MaxLines)
    /\ exc = None
    /\ llm_suggestions = <<>>
    /\ df = <<>> /\ out = <<>>
    /\ coefs = <<>> /\ top_idx = <<>>
    /\ TextIdle
    /\ TagIdle
    /\ TrainIdle
    /\ MainIdle

NextLlm == LlmCall \/ LlmJsonList \/ LlmLines \/ LlmExcept

SpecLlm == InitLlm /\ [][NextLlm]_vars

(***************************************************************************)
(* Claims about generate_suggestions_llm.                                  *)
(***************************************************************************)
\* the lines of the response text the line fallback can return
GoodLines ==
    {t \in {StripChars(resp.lines[k], Bullets) :
               k \in {j \in 1..Len(resp.lines) : Strip(resp.lines[j]) # ""}} :
        Len(t) > 6}

\* C13 (as stated): generate_suggestions_llm never raises, and it returns
\* the empty list whenever the call fails or the response text is not a
\* JSON list.
C13_EmptyWhenFailedOrMalformed ==
    /\ pc # "llm_raised"
    /\ (pc = "llm_returned" /\ (resp.raises # None \/ resp.json # "list"))
           => llm_suggestions = <<>>

\* C13 (amended): generate_suggestions_llm never raises; it returns the
\* empty list whenever the call fails or the body is unusable; when the
\* response text is not a JSON list it returns at most 7 of the text's
\* lines, stripped of bullets, each longer than 6 characters, and the empty
\* list only when the text has no such line.
C13_EmptyOnFailureLinesOtherwise ==
    /\ pc # "llm_raised"
    /\ pc = "llm_returned" =>
          /\ resp.raises # None => llm_suggestions = <<>>
          /\ (resp.raises = None /\ resp.json # "list") =>
                /\ Range(llm_suggestions) \subseteq GoodLines
                /\ Len(llm_suggestions) <= 7
                /\ (llm_suggestions = <<>>) <=> (GoodLines = {})

\* a text of eight lines that is no JSON: seven lines come back
C13_Witness ==
    /\ pc = "llm_returned"
    /\ resp.raises = None
    /\ resp.json = "invalid"
    /\ Len(resp.lines) = 8
    /\ Len(llm_suggestions) = 7

\* C14: no string occurs twice in the list generate_suggestions_llm
\* returns, whichever path produced it.
C14_ReturnedListDeduplicated ==
    pc = "llm_returned" =>
        \A j, k \in 1..Len(llm_suggestions) :
            j # k => llm_suggestions[j] # llm_suggestions[k]


(***************************************************************************)
(* The top terms of one class (app/main.py, lines 60-65).  A coefficient   *)
(* row is a sequence of integers; feature numbers count from 1.            *)
(***************************************************************************)
\* line 60
top_k == 15

Abs(x) == IF x < 0 THEN 0 - x ELSE x

\* the orders argsort could give were it to sort by absolute value
RECURSIVE ArgsortAbsFrom(_, _)
ArgsortAbsFrom(c, S) ==
    IF S = {} THEN {<<>>}
    ELSE UNION {{<<m>> \o s : s \in ArgsortAbsFrom(c, S \ {m})} :
                m \in {a \in S : \A j \in S : Abs(c[a]) <= Abs(c[j])}}

ArgsortAbs(c) == ArgsortAbsFrom(c, 1..Len(c))

\* np.argsort(coefs): the feature numbers by ascending coefficient; equal
\* coefficients in any order (quicksort)
RECURSIVE ArgsortFrom(_, _)
ArgsortFrom(c, S) ==
    IF S = {} THEN {<<>>}
    ELSE UNION {{<<m>> \o s : s \in ArgsortFrom(c, S \ {m})} :
                m \in {a \in S : \A j \in S : c[a] <= c[j]}}

Argsort(c) == ArgsortFrom(c, 1..Len(c))

\* s[-k:]
LastK(s, k) == IF Len(s) <= k THEN s ELSE SubSeq(s, Len(s) - k + 1, Len(s))

\* s[::-1]
Reverse(s) == [k \in 1..Len(s) |-> s[Len(s) + 1 - k]]

\* line 64: np.argsort(coefs)[-top_k:][::-1]
TopIdx(c) == {Reverse(LastK(s, top_k)) : s \in Argsort(c)}

\* lines 63-64 for one class
TopTerms ==
    /\ pc = "terms"
    /\ top_idx' \in TopIdx(coefs)
    /\ pc' = "terms_done"
    /\ UNCHANGED coefs
    /\ UNCHANGED <<cleanVars, textVars, tagVars, trainVars, llmVars, mainVars>>

\* rows of up to n pairwise different weights, rising or falling with the
\* feature number, at most m of them negative
CoefRows(n, m) ==
    UNION {{[k \in 1..len |-> (IF k \in neg THEN 0 - 1 ELSE 1)
                                * (IF up THEN k ELSE len + 1 - k)] :
               neg \in {Range(sq) : sq \in SeqsUpTo(1..len, m)},
               up \in BOOLEAN} : len \in 1..n}

InitTerms ==
    /\ pc = "terms"
    /\ coefs \in CoefRows(MaxFeatures, MaxNegative)
    /\ top_idx = <<>>
    /\ df = <<>> /\ out = <<>>
    /\ TextIdle
    /\ TagIdle
    /\ TrainIdle
    /\ LlmIdle
    /\ MainIdle

NextTerms == TopTerms

SpecTerms == InitTerms /\ [][NextTerms]_vars

(***************************************************************************)
(* Claims about the top terms.                                             *)
(***************************************************************************)
Listed == Range(top_idx)

\* the number of features a list holds: top_k, or all when there are fewer
ListLen == IF Len(coefs) < top_k THEN Len(coefs) ELSE top_k

\* C19 (as stated): the list of a class holds the 15 features with the
\* largest absolute coefficient, in decreasing order of absolute weight.
C19_TopByAbsoluteWeight ==
    pc = "terms_done" =>
        /\ Len(top_idx) = ListLen
        /\ Cardinality(Listed) = ListLen
        /\ \A a \in Listed : \A j \in (1..Len(coefs)) \ Listed :
               Abs(coefs[a]) >= Abs(coefs[j])
        /\ \A j, k \in 1..Len(top_idx) :
               j < k => Abs(coefs[top_idx[j]]) >= Abs(coefs[top_idx[k]])

\* C19 (amended): the list of a class holds the 15 features (all of them
\* when there are fewer) with the largest signed coefficient, in decreasing
\* order of the signed coefficient.
C19_TopBySignedWeight ==
    pc = "terms_done" =>
        /\ Len(top_idx) = ListLen
        /\ Cardinality(Listed) = ListLen
        /\ \A a \in Listed : \A j \in (1..Len(coefs)) \ Listed :
               coefs[a] >= coefs[j]
        /\ \A j, k \in 1..Len(top_idx) :
               j < k => coefs[top_idx[j]] >= coefs[top_idx[k]]

\* sixteen features: the one of largest absolute weight is negative and is
\* left out, while the feature of weight -2 closes the list
C19_Witness ==
    /\ pc = "terms_done"
    /\ Len(coefs) = 16
    /\ coefs[16] = 0 - 16
    /\ coefs[2] = 0 - 2
    /\ coefs[1] = 1
    /\ 16 \notin Listed
    /\ Len(top_idx) = 15
    /\ top_idx[1] = 15
    /\ top_idx[15] = 2

(***************************************************************************)
(* main (app/main.py) from line 43 on: the normalised frame is held by its *)
(* columns rating and sentiment, and by cleaned_texts.                     *)
(***************************************************************************)
\* the number of rows of y with label c
ClassCount(y, c) == Cardinality({k \in 1..Len(y) : y[k] = c})

\* train_test_split(test_size=0.2): ceil(0.2 n) rows to test, floor(0.8 n)
\* rows to train
n_test(n)  == (n + 4) \div 5
n_train(n) == (4 * n) \div 5

\* train_test_split(..., stratify=y) raises ValueError: an empty train set,
\* a class of one member, or fewer train or test rows than classes
SplitRaises(y) ==
    LET n == Len(y)
        K == Cardinality(Range(y))
    IN  \/ n_train(n) = 0
        \/ \E c \in Range(y) : ClassCount(y, c) < 2
        \/ n_train(n) < K
        \/ n_test(n) < K

\* stratify=y: class c gives floor(count * n_train / n) rows to train, and
\* the rows still missing come from the classes of largest remainder, ties
\* broken by the random state
TrainAlloc(y) ==
    LET n      == Len(y)
        Cs     == Range(y)
        fl(c)  == (ClassCount(y, c) * n_train(n)) \div n
        rem(c) == (ClassCount(y, c) * n_train(n)) % n
        need   == n_train(n) - SumOver([c \in Cs |-> fl(c)], Cs)
    IN  {[c \in Cs |-> fl(c) + e[c]] :
            e \in {d \in [Cs -> {0, 1}] :
                     /\ SumOver(d, Cs) = need
                     /\ \A a, b \in Cs : (d[a] = 1 /\ d[b] = 0) => rem(a) >= rem(b)}}

\* the ways to draw m rows of class c: how many rows of each text
ClassParts(c, m) ==
    LET Ts == Range(cleaned_texts)
        cnt(x) == Cardinality({k \in 1..Len(sentiment) :
                                  sentiment[k] = c /\ cleaned_texts[k] = x})
    IN  {f \in [Ts -> 0..m] : (\A x \in Ts : f[x] <= cnt(x)) /\ SumOver(f, Ts) = m}

\* X_train_texts for one allocation: how many train rows have each text
RECURSIVE TrainTexts(_, _)
TrainTexts(Cs, alloc) ==
    IF Cs = {} THEN {[x \in Range(cleaned_texts) |-> 0]}
    ELSE LET c == CHOOSE x \in Cs : TRUE
         IN  {[x \in Range(cleaned_texts) |-> f[x] + r[x]] :
                 f \in ClassParts(c, alloc[c]), r \in TrainTexts(Cs \ {c}, alloc)}

\* features.py: TfidfVectorizer(min_df=2, max_df=0.9).fit_transform keeps the
\* terms found in at least 2 and at most 0.9 n documents and raises
\* ValueError when none is left.  tt is X_train_texts by text; the sample
\* words share no character 3-gram, so that the character vectoriser keeps
\* a term exactly when the word vectoriser does.
VectorizerOk(tt) ==
    LET n     == SumOver(tt, DOMAIN tt)
        Words == UNION {Range(Split(x)) : x \in DOMAIN tt}
        docs(w) == SumOver([x \in DOMAIN tt |-> IF w \in Range(Split(x)) THEN tt[x] ELSE 0],
                           DOMAIN tt)
    IN  \E w \in Words : docs(w) >= 2 /\ 10 * docs(w) <= 9 * n

\* the smallest class count of y_train
MinCount(alloc) ==
    CHOOSE m \in {alloc[c] : c \in DOMAIN alloc} : \A c \in DOMAIN alloc : m <= alloc[c]

\* what cross-validation gives in a run: every candidate fails, or the
\* seventh candidate scores best
CvSamples ==
    {[k \in 1..Len(candidates) |-> [kind |-> "raise", v |-> 0]],
     [k \in 1..Len(candidates) |->
         [kind |-> "score", v |-> IF k = 7 THEN MaxScore ELSE 0]]}

\* an exception leaves main at the given line
Exception(line, type) == [line |-> line, type |-> type]

\* open(name, "w") / to_csv(name)
Write(fs, name, content) ==
    [x \in DOMAIN fs \cup {name} |-> IF x = name THEN content ELSE fs[x]]

\* lines 45-47 raise
MainSplitRaise ==
    /\ pc = "split"
    /\ SplitRaises(sentiment)
    /\ error' = Exception(45, "ValueError")
    /\ pc' = "raised"
    /\ UNCHANGED <<rating, classes, suggestions, files>>
    /\ UNCHANGED <<cleanVars, textVars, tagVars, trainVars, llmVars, termVars>>

\* lines 45-48: the split is made, vectorize_text raises on the train texts
MainVectorizeRaise ==
    /\ pc = "split"
    /\ ~SplitRaises(sentiment)
    /\ \E alloc \in TrainAlloc(sentiment) :
          \E tt \in TrainTexts(Range(sentiment), alloc) : ~VectorizerOk(tt)
    /\ error' = Exception(48, "ValueError")
    /\ pc' = "raised"
    /\ UNCHANGED <<rating, classes, suggestions, files>>
    /\ UNCHANGED <<cleanVars, textVars, tagVars, trainVars, llmVars, termVars>>

\* lines 45-50: y_train has one class, so that no candidate can be fitted:
\* best_model.fit of modeling.py line 37 raises
MainFitRaise ==
    /\ pc = "split"
    /\ ~SplitRaises(sentiment)
    /\ \E alloc \in TrainAlloc(sentiment) :
          \E tt \in TrainTexts(Range(sentiment), alloc) : VectorizerOk(tt)
    /\ Cardinality(Range(sentiment)) < 2
    /\ error' = Exception(50, "ValueError")
    /\ pc' = "raised"
    /\ UNCHANGED <<rating, classes, suggestions, files>>
    /\ UNCHANGED <<cleanVars, textVars, tagVars, trainVars, llmVars, termVars>>

\* lines 45-54: split, vectorise, train and score a model; every class of
\* y has at least one train row, so that classes_ is the classes of y
MainLearn ==
    /\ pc = "split"
    /\ ~SplitRaises(sentiment)
    /\ Cardinality(Range(sentiment)) >= 2
    /\ \E alloc \in TrainAlloc(sentiment) :
          /\ \E tt \in TrainTexts(Range(sentiment), alloc) : VectorizerOk(tt)
          /\ \E scores \in CvSamples :
                LET best == Select(scores, MinCount(alloc))
                IN  /\ cv' = scores
                    /\ returned' = <<best.best_model, best.best_name>>
    /\ classes' = Range(sentiment)
    /\ pc' = "top_terms"
    /\ UNCHANGED <<rating, suggestions, files, error>>
    /\ UNCHANGED <<cleanVars, textVars, tagVars, llmVars, termVars>>

\* the number of rows of model.coef_ for a linear model fitted on the
\* classes cls: one row for two classes, one row a class for more
coef_rows(cls) == IF Cardinality(cls) = 2 THEN 1 ELSE Cardinality(cls)

\* lines 57-80: one list of terms for every member of classes_, read at
\* line 63 from the row of coef_ with the same number, counted from 0; a
\* number with no row raises IndexError, and nothing is written
MainTopTerms ==
    /\ pc = "top_terms"
    /\ IF \E idx \in 0..(Cardinality(classes) - 1) : idx >= coef_rows(classes)
       THEN /\ error' = Exception(63, "IndexError")
            /\ pc' = "raised"
            /\ UNCHANGED files
       ELSE /\ files' = Write(Write(files, "top_terms_per_sentiment.txt", classes),
                              "top_terms_per_sentiment.csv", classes)
            /\ pc' = "tag"
            /\ UNCHANGED error
    /\ UNCHANGED <<rating, classes, suggestions>>
    /\ UNCHANGED <<cleanVars, textVars, tagVars, trainVars, llmVars, termVars>>

\* lines 97-110
RuleSuggestions(neg) ==
    (IF neg["wait_time"] > 0 \/ neg["service"] > 0
     THEN <<"Reduce wait times and improve service flow: adjust peak staffing and set service time KPIs.">>
     ELSE <<>>)
    \o (IF neg["portion_temp"] > 0 \/ neg["food_quality"] > 0
        THEN <<"Food quality control: enforce pass checks to avoid cold/forgotten dishes and standardize recipes.">>
        ELSE <<>>)
    \o (IF neg["pricing_value"] > 0
        THEN <<"Pricing perception: introduce value bundles and clarify pricing on menus.">>
        ELSE <<>>)
    \o (IF neg["ambience"] > 0
        THEN <<"Ambience: adjust music volume policy and review climate control standards.">>
        ELSE <<>>)
    \o (IF neg["cleanliness"] > 0
        THEN <<"Cleanliness: increase FOH/BOH cleaning cadence and visible hygiene checks.">>
        ELSE <<>>)
    \o (IF neg["order_accuracy"] > 0
        THEN <<"Order accuracy: implement order confirmation steps and expo verification.">>
        ELSE <<>>)

\* line 119
StaticMessage ==
    "No strong recurring pain points detected in negative topics. Continue monitoring."

\* lines 113-119: the lines of business_suggestions.txt
SuggestionsTxt(sugg) ==
    IF sugg # <<>>
    THEN <<"Key improvement suggestions (data-driven):">>
             \o [k \in 1..Len(sugg) |-> "- " \o sugg[k]]
    ELSE <<StaticMessage>>

\* lines 122-123: business_suggestions.csv
SuggestionsCsv(sugg) ==
    [columns |-> <<"suggestion">>,
     rows    |-> [k \in 1..Len(sugg) |-> [suggestion |-> sugg[k]]]]

\* export_enriched_csv: reviews_enriched.csv, with the columns held here
EnrichedCsv ==
    [columns |-> <<"beoordeling", "opgeschoonde_review", "ml_trefwoorden">>,
     rows    |-> [k \in 1..Len(cleaned_texts) |->
                     [beoordeling |-> rating[k],
                      opgeschoonde_review |-> cleaned_texts[k],
                      ml_trefwoorden |-> per_text_complaints[k]]]]

\* lines 94-123: the enriched export, the suggestions and their two files
MainReport ==
    /\ pc = "summed"
    /\ rating # <<>>
    /\ LET sugg == RuleSuggestions(neg_complaints)
       IN  /\ suggestions' = sugg
           /\ files' = Write(Write(Write(files, "reviews_enriched.csv", EnrichedCsv),
                                   "business_suggestions.txt", SuggestionsTxt(sugg)),
                             "business_suggestions.csv", SuggestionsCsv(sugg))
    /\ pc' = "done"
    /\ UNCHANGED <<rating, classes, error>>
    /\ UNCHANGED <<cleanVars, textVars, tagVars, trainVars, llmVars, termVars>>

\* reviews as the frame holds them after line 40: a rating and a cleaned text
ReviewKinds ==
    <<[rating |-> 1, cleaned |-> "duur"], [rating |-> 2, cleaned |-> "lekker"],
      [rating |-> 3, cleaned |-> "duur"], [rating |-> 4, cleaned |-> "lekker"],
      [rating |-> 5, cleaned |-> "lekker"]>>

\* c[k] reviews of kind k, for every kind from k on
RECURSIVE Rows(_, _)
Rows(c, k) ==
    IF k > Len(ReviewKinds) THEN <<>>
    ELSE [j \in 1..c[k] |-> ReviewKinds[k]] \o Rows(c, k + 1)

\* frames of up to m reviews of every kind
Frames(m) == {Rows(c, 1) : c \in [1..Len(ReviewKinds) -> 0..m]}

InitMain ==
    /\ pc = "split"
    /\ \E fr \in Frames(MaxPerKind) :
          /\ rating = [k \in 1..Len(fr) |-> Num(fr[k].rating)]
          /\ sentiment = [k \in 1..Len(fr) |-> label_sentiment(Num(fr[k].rating))]
          /\ cleaned_texts = [k \in 1..Len(fr) |-> fr[k].cleaned]
    /\ classes = {} /\ suggestions = <<>> /\ files = <<>> /\ error = None
    /\ per_text = <<>> /\ total = <<>>
    /\ per_text_complaints = <<>> /\ complaint_counts = <<>> /\ neg_complaints = <<>>
    /\ zipped = 0
    /\ df = <<>> /\ out = <<>>
    /\ coefs = <<>> /\ top_idx = <<>>
    /\ TextIdle
    /\ TrainIdle
    /\ LlmIdle

NextMain ==
    \/ MainSplitRaise
    \/ MainVectorizeRaise
    \/ MainFitRaise
    \/ MainLearn
    \/ MainTopTerms
    \/ TagStart
    \/ TagText
    \/ TagReturn
    \/ NegStep
    \/ NegDone
    \/ MainReport

SpecMain == InitMain /\ [][NextMain]_vars


(***************************************************************************)
(* export_sentiment_aggregate (app/export.py), which main does not call.   *)
(***************************************************************************)
\* lines 91-93
nl_label(x) ==
    CASE x = "negative" -> "negatief"
      [] x = "neutral"  -> "neutraal"
      [] x = "positive" -> "positief"
      [] OTHER          -> x

\* line 95: value_counts of the Dutch labels, one entry for every label
\* that occurs
export_sentiment_aggregate(labels) ==
    [c \in {nl_label(labels[k]) : k \in 1..Len(labels)} |->
        Cardinality({k \in 1..Len(labels) : nl_label(labels[k]) = c})]

(***************************************************************************)
(* Claims about a run of main.                                             *)
(***************************************************************************)
\* C11: when the frame is not empty and some sentiment class has fewer than
\* 2 examples in it, main does not raise.
C11_RuleModeFallback ==
    (sentiment # <<>> /\ \E c \in Labels : ClassCount(sentiment, c) < 2)
        => pc # "raised"

\* C12: a run whose normalised frame has zero rows does not raise, and once
\* it is over the per-review output is empty, every complaint count is zero
\* and the suggestion output is written.
C12_EmptyRunCompletes ==
    sentiment = <<>> =>
        /\ pc # "raised"
        /\ pc = "done" =>
              /\ files["reviews_enriched.csv"].rows = <<>>
              /\ \A c \in Categories : complaint_counts[c] = 0
              /\ "business_suggestions.txt" \in DOMAIN files

\* C15: whenever a run ends with no suggestion, the suggestion report holds
\* the static message and carries the provenance source=none.
C15_FallbackReportSourceNone ==
    (pc = "done" /\ suggestions = <<>>) =>
        /\ StaticMessage \in Range(files["business_suggestions.txt"])
        /\ "source" \in Range(files["business_suggestions.csv"].columns)
        /\ \E k \in 1..Len(files["business_suggestions.csv"].rows) :
               files["business_suggestions.csv"].rows[k].source = "none"

\* C16: a run on reviews of distinct texts and ratings in [1,5] does not
\* raise, and once it is over the sentiment distribution written has, for
\* every label, the number of records of that label.
C16_EndToEndDistribution ==
    /\ pc # "raised"
    /\ pc = "done" =>
          /\ "sentiment_counts.csv" \in DOMAIN files
          /\ files["sentiment_counts.csv"] = export_sentiment_aggregate(sentiment)


\* C21: for every training set the run accepts, the one of two classes
\* included, the top-term extraction raises no index error and writes one
\* term list for every class of the fitted model.
C21_CoefRowForEveryClass ==
    /\ pc = "raised" => error.line # 63
    /\ pc \in {"tag", "tag_loop", "neg_loop", "summed", "done"} =>
          /\ "top_terms_per_sentiment.txt" \in DOMAIN files
          /\ files["top_terms_per_sentiment.txt"] = classes

====
